---- MODULE Spec2Model ----
(***************************************************************************)
(* Model of the worker-process supervisor of audio-transcribe:             *)
(* src-tauri/src/main.rs, the tauri command start_backend.                 *)
(*                                                                         *)
(* Each invocation of the command is a process Calls[i] that walks through *)
(* the statements of start_backend.  Commands run on the multi-threaded    *)
(* async runtime, so the statements of different invocations, the reaper   *)
(* tasks, the worker processes and the rest of the host interleave freely. *)
(***************************************************************************)
EXTENDS Integers, FiniteSets, Sequences, TLC

\* ---- bounds -------------------------------------------------------------
MaxCalls == 2          \* number of start_backend invocations considered
NumProbePorts == 1     \* number of distinct ports the OS probe may hand out

\* ---- program constants --------------------------------------------------
FallbackPort == 8000   \* unwrap_or(8000)
U16Max == 65535        \* Result<u16, String>
ProbeBase == 15000     \* first port the probe may hand out

Calls == 1..MaxCalls
ProbePorts == ProbeBase..(ProbeBase + NumProbePorts - 1)
Ports == ProbePorts \cup {FallbackPort}
ExitCodes == {0, 1}

\* ---- values -------------------------------------------------------------
Unset == "<unset>"
EnvVars == {"TAURI"}
EnvValues == {Unset, "0", "1"}

None == [tag |-> "None"]
Some(p) == [tag |-> "Some", port |-> p]
NotYet == [tag |-> "NotYet"]

NoResult == [tag |-> "Pending"]
Ok(p) == [tag |-> "Ok", port |-> p]
Err(msg) == [tag |-> "Err", msg |-> msg]

NoWorker == [state |-> "none"]

VARIABLES
  launcherEnv,  \* environment of the launcher process
  hostBound,    \* ports currently bound by some process on the host
  pc,           \* position of each invocation inside start_backend
  probe,        \* what pick_unused_port() returned to each invocation
  port,         \* the local `port` of each invocation
  worker,       \* the child process spawned by each invocation
  task,         \* the background wait task spawned by each invocation
  result,       \* what each invocation returned to its caller
  spawnCount    \* number of child processes created so far

vars == <<launcherEnv, hostBound, pc, probe, port, worker, task, result,
          spawnCount>>

\* ---- pure helpers -------------------------------------------------------
\* Option::unwrap_or
UnwrapOrAlwaysDefault(opt, default) == default
UnwrapOr(opt, default) == IF opt.tag = "Some" THEN opt.port ELSE default

\* portpicker::pick_unused_port(): the outcomes the probe can produce on a
\* host whose bound ports are `bound`: a port it found unbound, or nothing.
PickUnusedPort(bound) == {Some(p) : p \in ProbePorts \ bound} \cup {None}

\* Command::env("TAURI", "1") on top of the inherited environment
ChildEnvInherited(env) == env
ChildEnv(env) == [env EXCEPT !["TAURI"] = "1"]

\* the child created by sidecar("AudioTranscribe")...spawn(): no arguments
SpawnedChild(env) ==
  [state |-> "alive", args |-> << >>, env |-> ChildEnv(env)]

\* Ok(port)
OkResultFallback(p) == Ok(FallbackPort)
OkResult(p) == Ok(p)

Init ==
  /\ launcherEnv \in [EnvVars -> EnvValues]
  /\ hostBound = {}
  /\ pc = [i \in Calls |-> "idle"]
  /\ probe = [i \in Calls |-> NotYet]
  /\ port = [i \in Calls |-> 0]
  /\ worker = [i \in Calls |-> NoWorker]
  /\ task = [i \in Calls |-> "none"]
  /\ result = [i \in Calls |-> NoResult]
  /\ spawnCount = 0

\* ---- start_backend, statement by statement ------------------------------
\* line 8: let port = portpicker::pick_unused_port().unwrap_or(8000);
PickPortFailing(i) ==
  /\ pc[i] = "idle"
  /\ \E opt \in PickUnusedPort(hostBound) :
       /\ probe' = [probe EXCEPT ![i] = opt]
       /\ port' = [port EXCEPT ![i] = UnwrapOr(opt, FallbackPort)]
       /\ IF opt.tag = "Some"
            THEN /\ pc' = [pc EXCEPT ![i] = "sidecar"]
                 /\ UNCHANGED result
            ELSE /\ pc' = [pc EXCEPT ![i] = "done"]
                 /\ result' = [result EXCEPT ![i] = Err("no unused port")]
  /\ UNCHANGED <<spawnCount, launcherEnv, hostBound, worker, task>>

PickPortReserving(i) ==
  /\ pc[i] = "idle"
  /\ \E opt \in PickUnusedPort(hostBound) :
       /\ probe' = [probe EXCEPT ![i] = opt]
       /\ port' = [port EXCEPT ![i] = UnwrapOr(opt, FallbackPort)]
       /\ hostBound' = hostBound \cup {UnwrapOr(opt, FallbackPort)}
  /\ pc' = [pc EXCEPT ![i] = "sidecar"]
  /\ UNCHANGED <<spawnCount, launcherEnv, worker, task, result>>

PickPort(i) ==
  /\ pc[i] = "idle"
  /\ \E opt \in PickUnusedPort(hostBound) :
       /\ probe' = [probe EXCEPT ![i] = opt]
       /\ port' = [port EXCEPT ![i] = UnwrapOr(opt, FallbackPort)]
  /\ pc' = [pc EXCEPT ![i] = "sidecar"]
  /\ UNCHANGED <<spawnCount, launcherEnv, hostBound, worker, task, result>>

\* lines 9-11: shell.sidecar("AudioTranscribe") resolves
SidecarOk(i) ==
  /\ pc[i] = "sidecar"
  /\ pc' = [pc EXCEPT ![i] = "spawn"]
  /\ UNCHANGED <<spawnCount, launcherEnv, hostBound, probe, port,
                 worker, task, result>>

\* lines 9-11: shell.sidecar("AudioTranscribe") fails, `?` returns the error
SidecarFail(i) ==
  /\ pc[i] = "sidecar"
  /\ pc' = [pc EXCEPT ![i] = "done"]
  /\ result' = [result EXCEPT ![i] = Err("sidecar error")]
  /\ UNCHANGED <<spawnCount, launcherEnv, hostBound, probe, port, worker, task>>

\* lines 12-14: .env("TAURI", "1").spawn() succeeds
SpawnOkSingleFlight(i) ==
  /\ pc[i] = "spawn"
  /\ \A j \in Calls : worker[j].state # "alive"
  /\ worker' = [worker EXCEPT ![i] = SpawnedChild(launcherEnv)]
  /\ pc' = [pc EXCEPT ![i] = "schedule"]
  /\ spawnCount' = spawnCount + 1
  /\ UNCHANGED <<launcherEnv, hostBound, probe, port, task, result>>

SpawnOkRespawn(i) ==
  /\ \/ /\ pc[i] = "spawn"
        /\ pc' = [pc EXCEPT ![i] = "schedule"]
        /\ UNCHANGED task
     \/ /\ worker[i].state = "reaped"
        /\ task' = [task EXCEPT ![i] = "pending"]
        /\ UNCHANGED pc
  /\ worker' = [worker EXCEPT ![i] = SpawnedChild(launcherEnv)]
  /\ spawnCount' = spawnCount + 1
  /\ UNCHANGED <<launcherEnv, hostBound, probe, port, result>>

SpawnOkTwice(i) ==
  /\ pc[i] = "spawn"
  /\ worker' = [worker EXCEPT ![i] = SpawnedChild(launcherEnv)]
  /\ pc' = [pc EXCEPT ![i] = "schedule"]
  /\ spawnCount' = spawnCount + 2
  /\ UNCHANGED <<launcherEnv, hostBound, probe, port, task, result>>

SpawnOkKillsOthers(i) ==
  /\ pc[i] = "spawn"
  /\ worker' = [j \in Calls |->
                  IF j = i THEN SpawnedChild(launcherEnv)
                  ELSE IF worker[j].state = "alive"
                         THEN [worker[j] EXCEPT !.state = "exited"]
                         ELSE worker[j]]
  /\ pc' = [pc EXCEPT ![i] = "schedule"]
  /\ spawnCount' = spawnCount + 1
  /\ UNCHANGED <<launcherEnv, hostBound, probe, port, task, result>>

SpawnOk(i) ==
  /\ pc[i] = "spawn"
  /\ worker' = [worker EXCEPT ![i] = SpawnedChild(launcherEnv)]
  /\ pc' = [pc EXCEPT ![i] = "schedule"]
  /\ spawnCount' = spawnCount + 1
  /\ UNCHANGED <<launcherEnv, hostBound, probe, port, task, result>>

\* lines 12-14: .spawn() fails, `?` returns the error
SpawnFailLeavesChild(i) ==
  /\ pc[i] = "spawn"
  /\ worker' = [worker EXCEPT ![i] = SpawnedChild(launcherEnv)]
  /\ pc' = [pc EXCEPT ![i] = "done"]
  /\ result' = [result EXCEPT ![i] = Err("spawn error")]
  /\ spawnCount' = spawnCount + 1
  /\ UNCHANGED <<launcherEnv, hostBound, probe, port, task>>

SpawnFail(i) ==
  /\ pc[i] = "spawn"
  /\ pc' = [pc EXCEPT ![i] = "done"]
  /\ result' = [result EXCEPT ![i] = Err("spawn error")]
  /\ UNCHANGED <<spawnCount, launcherEnv, hostBound, probe, port, worker, task>>

\* lines 15-17: tauri::async_runtime::spawn(async move { ... })
ScheduleWaitForgotten(i) ==
  /\ pc[i] = "schedule"
  /\ pc' = [pc EXCEPT ![i] = "return"]
  /\ UNCHANGED <<spawnCount, launcherEnv, hostBound, probe, port, worker,
                 task, result>>

ScheduleWait(i) ==
  /\ pc[i] = "schedule"
  /\ task' = [task EXCEPT ![i] = "pending"]
  /\ pc' = [pc EXCEPT ![i] = "return"]
  /\ UNCHANGED <<spawnCount, launcherEnv, hostBound, probe,
                 port, worker, result>>

\* line 18: Ok(port)
ReturnOkAfterExit(i) ==
  /\ pc[i] = "return"
  /\ worker[i].state # "alive"
  /\ result' = [result EXCEPT ![i] = OkResult(port[i])]
  /\ pc' = [pc EXCEPT ![i] = "done"]
  /\ UNCHANGED <<spawnCount, launcherEnv, hostBound, probe, port, worker, task>>

ReturnOkTouchesChild(i) ==
  /\ pc[i] = "return"
  /\ result' = [result EXCEPT ![i] = OkResult(port[i])]
  /\ pc' = [pc EXCEPT ![i] = "done"]
  /\ worker' = [worker EXCEPT ![i].state =
                  IF @ = "exited" THEN "reaped" ELSE @]
  /\ UNCHANGED <<spawnCount, launcherEnv, hostBound, probe, port, task>>

ReturnOkEarly(i) ==
  /\ pc[i] \in {"schedule", "return"}
  /\ result' = [result EXCEPT ![i] = OkResult(port[i])]
  /\ pc' = [pc EXCEPT ![i] = "done"]
  /\ UNCHANGED <<spawnCount, launcherEnv, hostBound, probe, port, worker, task>>

ReturnOk(i) ==
  /\ pc[i] = "return"
  /\ result' = [result EXCEPT ![i] = OkResult(port[i])]
  /\ pc' = [pc EXCEPT ![i] = "done"]
  /\ UNCHANGED <<spawnCount, launcherEnv, hostBound, probe, port, worker, task>>

\* ---- the background task ------------------------------------------------
\* line 16: let _ = child.wait().await;  completes once the child has exited;
\* the exit status it yields is bound to `_` and dropped with the child handle.
WaitCompleteEarly(i) ==
  /\ task[i] = "pending"
  /\ task' = [task EXCEPT ![i] = "completed"]
  /\ worker' = [worker EXCEPT ![i].state = "reaped"]
  /\ UNCHANGED <<spawnCount, launcherEnv, hostBound, pc, probe, port, result>>

WaitCompleteReporting(i) ==
  /\ task[i] = "pending"
  /\ worker[i].state = "exited"
  /\ \E status \in ExitCodes :
       result' = [result EXCEPT ![i] =
                    IF status # 0 THEN Err("worker exited") ELSE @]
  /\ task' = [task EXCEPT ![i] = "completed"]
  /\ worker' = [worker EXCEPT ![i].state = "reaped"]
  /\ UNCHANGED <<spawnCount, launcherEnv, hostBound, pc, probe, port>>

WaitComplete(i) ==
  /\ task[i] = "pending"
  /\ worker[i].state = "exited"
  /\ \E status \in ExitCodes :
       /\ task' = [task EXCEPT ![i] = "completed"]
       /\ worker' = [worker EXCEPT ![i].state = "reaped"]
  /\ UNCHANGED <<spawnCount, launcherEnv, hostBound, pc, probe, port, result>>

\* ---- the environment ----------------------------------------------------
\* the worker terminates on its own or is terminated by the OS
WorkerExit(i) ==
  /\ worker[i].state = "alive"
  /\ worker' = [worker EXCEPT ![i].state = "exited"]
  /\ UNCHANGED <<spawnCount, launcherEnv, hostBound, pc, probe,
                 port, task, result>>

\* some process on the host binds a port
HostBind(p) ==
  /\ p \notin hostBound
  /\ hostBound' = hostBound \cup {p}
  /\ UNCHANGED <<spawnCount, launcherEnv, pc, probe, port,
                 worker, task, result>>

\* some process on the host releases a port
HostRelease(p) ==
  /\ p \in hostBound
  /\ hostBound' = hostBound \ {p}
  /\ UNCHANGED <<spawnCount, launcherEnv, pc, probe, port,
                 worker, task, result>>

Next ==
  \/ \E i \in Calls : PickPort(i)
  \/ \E i \in Calls : SidecarOk(i)
  \/ \E i \in Calls : SidecarFail(i)
  \/ \E i \in Calls : SpawnOk(i)
  \/ \E i \in Calls : SpawnFail(i)
  \/ \E i \in Calls : ScheduleWait(i)
  \/ \E i \in Calls : ReturnOk(i)
  \/ \E i \in Calls : WaitComplete(i)
  \/ \E i \in Calls : WorkerExit(i)
  \/ \E p \in Ports : HostBind(p)
  \/ \E p \in Ports : HostRelease(p)

Spec == Init /\ [][Next]_vars

\* The statements of start_backend never block, so an invocation that has
\* started runs to its return; a reaper task whose child has exited is
\* resumed by the runtime.  Nothing forces a worker to exit.
CommandStep(i) ==
  SidecarOk(i) \/ SidecarFail(i) \/ SpawnOk(i) \/ SpawnFail(i)
    \/ ScheduleWait(i) \/ ReturnOk(i)

FairSpec ==
  /\ Spec
  /\ \A i \in Calls : WF_vars(CommandStep(i))
  /\ \A i \in Calls : WF_vars(WaitComplete(i))

TypeOK ==
  /\ launcherEnv \in [EnvVars -> EnvValues]
  /\ hostBound \subseteq Ports
  /\ pc \in [Calls -> {"idle", "sidecar", "spawn", "schedule", "return", "done"}]
  /\ port \in [Calls -> 0..U16Max]
  /\ task \in [Calls -> {"none", "pending", "completed"}]
  /\ \A i \in Calls : worker[i].state \in {"none", "alive", "exited", "reaped"}
  /\ \A i \in Calls : result[i].tag \in {"Pending", "Ok", "Err"}
  /\ \A i \in Calls : probe[i].tag \in {"NotYet", "None", "Some"}
  /\ spawnCount \in 0..MaxCalls

\* ---- helpers of the properties ------------------------------------------
Range(f) == {f[x] : x \in DOMAIN f}

\* the ports that the spawn context (arguments, environment) conveys to a child
PortsInContext(w) ==
  {p \in Ports : ToString(p) \in Range(w.args) \cup Range(w.env)}

Spawned(i) == worker[i].state # "none"

\* ---- C1 -----------------------------------------------------------------
\* C1: an invocation has a result exactly when it has ended; an invocation
\* whose resolution and spawn succeeded returns Ok(p) with p the port the
\* allocator produced in that invocation; one whose resolution or spawn
\* failed returns an error string that carries no port number.
C1_OkPortOrError ==
  \A i \in Calls :
    /\ (pc[i] = "done") <=> (result[i] # NoResult)
    /\ pc[i] = "done" =>
         IF Spawned(i)
           THEN result[i] = Ok(UnwrapOr(probe[i], FallbackPort))
           ELSE /\ result[i].tag = "Err"
                /\ DOMAIN result[i] = {"tag", "msg"}

C1_Witness ==
  \E i \in Calls :
    /\ pc[i] = "done" /\ probe[i].tag = "Some"
    /\ result[i] = Ok(probe[i].port)

\* ---- C2 -----------------------------------------------------------------
\* C2: the step in which an invocation fails (resolution or spawn) creates
\* no worker and schedules no wait task, and leaves every worker and every
\* wait task as it was; after the failure the invocation does nothing more
\* (no retry): its position, result, worker and task never change again.
C2_FailureCreatesNothing ==
  [][\A i \in Calls :
       /\ (result[i].tag # "Err" /\ result'[i].tag = "Err") =>
            /\ worker' = worker /\ task' = task
            /\ worker[i] = NoWorker /\ task[i] = "none"
            /\ pc'[i] = "done"
       /\ result[i].tag = "Err" =>
            /\ pc'[i] = pc[i] /\ result'[i] = result[i]
            /\ worker'[i] = NoWorker /\ task'[i] = "none"]_vars

C2_Witness ==
  \E i, j \in Calls :
    /\ result[i].tag = "Err" /\ worker[i] = NoWorker /\ task[i] = "none"
    /\ worker[j].state = "alive" /\ task[j] = "pending"

\* ---- C3 -----------------------------------------------------------------
\* C3 as stated: whenever the background wait of an invocation has
\* completed, that invocation has already returned its port number.
C3_ReturnBeforeWaitCompletes ==
  \A i \in Calls : task[i] = "completed" => pc[i] = "done"

\* C3 amended: the background wait is scheduled before the port number is
\* returned, and it completes only after it was scheduled and the worker has
\* exited; the return and the completion of the wait are not ordered.
C3_WaitScheduledBeforeReturn ==
  [][\A i \in Calls :
       /\ (task[i] # "completed" /\ task'[i] = "completed") =>
            /\ task[i] = "pending"
            /\ worker[i].state = "exited"
            /\ pc[i] \in {"return", "done"}
       /\ (result[i].tag # "Ok" /\ result'[i].tag = "Ok") =>
            task[i] \in {"pending", "completed"}]_vars

\* the worker exited right after spawn and was reaped before the return
C3_Witness ==
  \E i \in Calls : task[i] = "completed" /\ pc[i] = "return"

\* ---- C4 -----------------------------------------------------------------
\* C4: every invocation that has started eventually returns, whether or not
\* its worker ever exits (no fairness is assumed of the worker's exit).
C4_EventuallyReturns ==
  \A i \in Calls : (pc[i] # "idle") ~> (pc[i] = "done")

\* the command has returned its port while the worker is still running
C4_Witness ==
  \E i \in Calls :
    pc[i] = "done" /\ result[i].tag = "Ok" /\ worker[i].state = "alive"

\* ---- C5 -----------------------------------------------------------------
\* C5: a failed probe yields the local port 8000 and never an error: every
\* error returned comes from resolution or spawn, an invocation past line 8
\* whose probe failed holds port 8000, and one whose probe failed and whose
\* spawn succeeded returns Ok(8000).
C5_FallbackNeverFails ==
  \A i \in Calls :
    /\ result[i].tag = "Err" => result[i].msg \in {"sidecar error", "spawn error"}
    /\ probe[i] = None => port[i] = FallbackPort /\ pc[i] # "idle"
    /\ (probe[i] = None /\ pc[i] = "done" /\ Spawned(i)) =>
         result[i] = Ok(FallbackPort)

C5_Witness ==
  \E i \in Calls :
    probe[i] = None /\ Spawned(i) /\ result[i] = Ok(FallbackPort)

\* ---- C6 -----------------------------------------------------------------
\* C6: an invocation that has reached the spawn can always spawn, whatever
\* workers of other invocations are alive, and an invocation that spawned
\* and ended returned a port number, never an error.
C6_NotSerialized ==
  \A i \in Calls :
    /\ pc[i] = "spawn" => ENABLED SpawnOk(i)
    /\ (pc[i] = "done" /\ Spawned(i)) => result[i].tag = "Ok"

\* two invocations returned a port and both workers are alive at once
C6_Witness ==
  \E i, j \in Calls :
    /\ i # j
    /\ result[i].tag = "Ok" /\ result[j].tag = "Ok"
    /\ worker[i].state = "alive" /\ worker[j].state = "alive"

\* ---- C7 -----------------------------------------------------------------
\* C7: every spawned worker has TAURI = "1" in its environment, whatever
\* the launcher's environment holds for TAURI.
C7_ChildHasTauriFlag ==
  \A i \in Calls : Spawned(i) => worker[i].env["TAURI"] = "1"

C7_Witness ==
  \E i \in Calls : Spawned(i) /\ launcherEnv["TAURI"] # "1"

\* ---- C8 -----------------------------------------------------------------
\* C8: a step in which a worker exits or is reaped changes no result, no
\* position and no local port of any invocation, touches no other worker
\* (none is spawned), and at most completes that worker's wait task.
C8_ExitHasNoEffect ==
  [][\A i \in Calls :
       (\/ worker[i].state = "alive" /\ worker'[i].state # "alive"
        \/ worker[i].state = "exited" /\ worker'[i].state # "exited") =>
          /\ result' = result /\ pc' = pc /\ port' = port
          /\ \A j \in Calls : j # i => worker'[j] = worker[j]
          /\ task'[i] \in {task[i], "completed"}]_vars

\* the caller holds a port number for a worker that has already died
C8_Witness ==
  \E i \in Calls :
    result[i].tag = "Ok" /\ worker[i].state \in {"exited", "reaped"}

\* ---- C9 -----------------------------------------------------------------
\* C9: for every successful invocation, the port returned to the caller is
\* the port the worker was spawned with (conveyed by its spawn context).
C9_WorkerGetsReturnedPort ==
  \A i \in Calls :
    result[i].tag = "Ok" => result[i].port \in PortsInContext(worker[i])

\* ---- C10 ----------------------------------------------------------------
\* C10: when the probe of an invocation succeeds, the port the invocation
\* holds is in 1..65535 and is not bound on the host at that instant.
C10_AllocatedPortFree ==
  [][\A i \in Calls :
       (probe[i] = NotYet /\ probe'[i].tag = "Some") =>
         /\ port'[i] \in 1..U16Max
         /\ port'[i] \notin hostBound
         /\ port'[i] \notin hostBound']_vars

\* a successful allocation while another port of the host is bound
C10_Witness ==
  \E i \in Calls :
    /\ pc[i] = "sidecar" /\ probe[i].tag = "Some"
    /\ hostBound # {} /\ port[i] \notin hostBound

\* the state of the child handle of an invocation that spawned: Running from
\* the spawn until the background wait has completed, Reaped afterwards
HandleState(i) ==
  IF ~Spawned(i) THEN "none"
  ELSE IF task[i] = "completed" THEN "Reaped" ELSE "Running"

\* who holds the `child` value: the command until it moves it into the
\* background task, then that task, until the task ends and drops it
HandleOwner(i) ==
  IF ~Spawned(i) THEN "none"
  ELSE IF task[i] = "none" THEN "command"
  ELSE IF task[i] = "pending" THEN "task" ELSE "dropped"

\* ---- C11 ----------------------------------------------------------------
\* C11: under fair scheduling of the command and of the background task,
\* every spawned worker that has exited is eventually reaped.
C11_ExitedEventuallyReaped ==
  \A i \in Calls : (worker[i].state = "exited") ~> (worker[i].state = "reaped")

C11_Witness ==
  \E i \in Calls :
    worker[i].state = "reaped" /\ task[i] = "completed" /\ pc[i] = "done"

\* ---- C12 ----------------------------------------------------------------
\* C12: a handle is Running or Reaped from its creation on; a Running handle
\* stays Running or becomes Reaped, and a Reaped handle stays Reaped (its
\* process is not alive again), whatever step is taken.
C12_ReapedIsFinal ==
  [][\A i \in Calls :
       /\ HandleState(i) = "Running" => HandleState(i)' \in {"Running", "Reaped"}
       /\ HandleState(i) = "Reaped" =>
            HandleState(i)' = "Reaped" /\ worker'[i].state = "reaped"]_vars

\* a handle is Reaped while another invocation starts and spawns
C12_Witness ==
  \E i, j \in Calls :
    /\ HandleState(i) = "Reaped"
    /\ HandleState(j) = "Running" /\ worker[j].state = "exited"

\* ---- C13 ----------------------------------------------------------------
\* C13: the number of processes ever created equals the number of
\* invocations whose spawn succeeded and is at most the number of
\* invocations made.
C13_OneWorkerPerInvocation ==
  /\ spawnCount = Cardinality({i \in Calls : Spawned(i)})
  /\ spawnCount <= Cardinality({i \in Calls : pc[i] # "idle"})

\* every invocation was made, one failed, and a worker of another was reaped
C13_Witness ==
  /\ \A i \in Calls : pc[i] = "done"
  /\ \E i \in Calls : result[i].tag = "Err"
  /\ \E i \in Calls : worker[i].state = "reaped"
  /\ spawnCount = MaxCalls - 1

\* ---- C14 ----------------------------------------------------------------
\* C14: a step in which a worker stops being alive is a step of that worker
\* alone (no invocation moves, no wait task changes, no result changes), and
\* a step of an invocation leaves the workers and wait tasks of the other
\* invocations unchanged.
C14_NoCancellation ==
  [][\A i \in Calls :
       /\ (worker[i].state = "alive" /\ worker'[i].state # "alive") =>
            /\ worker'[i].state = "exited"
            /\ pc' = pc /\ task' = task /\ result' = result
            /\ spawnCount' = spawnCount
       /\ pc'[i] # pc[i] =>
            \A j \in Calls :
              j # i => worker'[j] = worker[j] /\ task'[j] = task[j]]_vars

\* a worker is still alive after another invocation ran from start to end
C14_Witness ==
  \E i, j \in Calls :
    /\ i # j /\ worker[i].state = "alive" /\ task[i] = "pending"
    /\ pc[j] = "done" /\ worker[j].state = "reaped"

\* ---- C15 ----------------------------------------------------------------
\* C15: while the background task of an invocation owns the child handle,
\* no step of a command and no step of another task changes that child or
\* that task; the handle is awaited once: a completed wait never runs again.
C15_HandleOwnedByTask ==
  [][\A i \in Calls :
       /\ (HandleOwner(i) = "task"
             /\ (worker'[i] # worker[i] \/ task'[i] # task[i])) =>
            /\ pc' = pc /\ result' = result
            /\ \A j \in Calls :
                 j # i => worker'[j] = worker[j] /\ task'[j] = task[j]
       /\ HandleOwner(i) = "dropped" =>
            worker'[i] = worker[i] /\ task'[i] = task[i]]_vars

\* two tasks own their handles at once, one of them with an exited child
C15_Witness ==
  \E i, j \in Calls :
    /\ i # j /\ HandleOwner(i) = "task" /\ HandleOwner(j) = "task"
    /\ worker[i].state = "exited" /\ pc[i] = "return"

\* ---- C16 ----------------------------------------------------------------
\* C16: whenever an invocation has returned Ok(port), its background wait
\* has been scheduled: it is pending or completed.
C16_ReaperScheduledBeforeOk ==
  \A i \in Calls : result[i].tag = "Ok" => task[i] \in {"pending", "completed"}

C16_Witness ==
  \E i \in Calls :
    result[i].tag = "Ok" /\ task[i] = "pending" /\ worker[i].state = "exited"

\* ---- C17 ----------------------------------------------------------------
\* C17: no step of an invocation or of a background task binds or releases
\* a port of the host: the allocated port is not held by the core.
C17_PortNotReserved ==
  [][(pc' # pc \/ task' # task) => hostBound' = hostBound]_vars

\* an invocation has returned a probed port and its worker is alive, while
\* an overlapping invocation with a live worker is about to return the same
\* port, which another process has bound since it was allocated
C17_Witness ==
  \E i, j \in Calls :
    /\ i # j
    /\ result[i].tag = "Ok" /\ worker[i].state = "alive"
    /\ pc[j] = "return" /\ worker[j].state = "alive"
    /\ probe[j].tag = "Some" /\ port[j] = result[i].port
    /\ port[j] \in hostBound

====
